---- MODULE Spec2Model ----
(***************************************************************************)
(* Model of src/data/datasets.py (SignLanguageDataset: __init__, __len__,  *)
(* __getitem__, load_video) and of src/data/raw/web_scraping.py            *)
(* (extract_data, get_video_links, scrape_with_selenium).                  *)
(*                                                                         *)
(* A video file is a finite stream of entries.  Reading an "ok" entry      *)
(* gives (True, frame); reading a "fail" entry or reading past the end     *)
(* gives (False, None); a "bad" entry is read successfully but cvtColor /  *)
(* torch.tensor raises on it.  A call of load_video is a process whose     *)
(* position is pc; one loop iteration is one step.                         *)
(***************************************************************************)
EXTENDS Integers, Sequences, FiniteSets, TLC

VARIABLES
    num_frames,      \* self.num_frames
    frame_step,      \* self.frame_step
    transform,       \* self.transform (NoTransform models None)
    data,            \* self.data: the enumerated .mp4 file names
    disk,            \* the file system: path -> video stream
    pc,              \* position of the running call
    caller,          \* "getitem" | "load_video" | "none"
    idx,             \* argument of __getitem__ (0-based), -1 otherwise
    path,            \* video_path of the running / last load_video call
    cap,             \* the cv2.VideoCapture handle: "none" | "open" | "released"
    cursor,          \* stream position of the handle
    frames,          \* local list frames
    frame_count,     \* local counter frame_count
    log,             \* the values ret returned by cap.read() in this call
    clip,            \* value returned by load_video (NoClip before it returns)
    item,            \* value returned by __getitem__ (NoItem before it returns)
    error,           \* exception that left the call, "none" otherwise
    memo,            \* path -> clip returned by the previous load_video of that path
    s_pc,            \* position of scrape_with_selenium
    site,            \* the scraped web site: its pages
    fault,           \* where the browser / parser raises
    driver,          \* the webdriver: "none" | "open" | "quit"
    page,            \* 1-based number of the page the browser shows
    all_text_video,  \* local list all_text_video
    logged,          \* what the except clause printed
    s_result         \* value returned by scrape_with_selenium

dvars == <<num_frames, frame_step, transform, data, disk, pc, caller, idx, path,
           cap, cursor, frames, frame_count, log, clip, item, error, memo>>
svars == <<s_pc, site, fault, driver, page, all_text_video, logged, s_result>>
vars == <<dvars, svars>>

\* ------------------------------------------------------------------ bounds
MaxNumFrames == 3
MaxFrameStep == 3
MaxSrcLen == 7
MaxPages == 3

\* def __init__(self, data_dir, num_frames=13, frame_step=4, transform=None)
DefaultNumFrames == 13
DefaultFrameStep == 4

\* ------------------------------------------------------------ file names
\* A name is a sequence of characters.
DataDir == <<"d">>
ListDir ==
    << <<"a", ".", "m", "p", "4">>,
       <<"n", ".", "t", "x", "t">>,
       <<"b", ".", "c", ".", "m", "p", "4">>,
       <<".", "m", "p", "4">> >>
Mp4 == <<".", "m", "p", "4">>

\* str.endswith
EndsWith(s, suf) ==
    /\ Len(s) >= Len(suf)
    /\ SubSeq(s, Len(s) - Len(suf) + 1, Len(s)) = suf

\* [f for f in os.listdir(data_dir) if f.endswith(".mp4")]
RECURSIVE FilterMp4(_)
FilterMp4(l) ==
    IF l = <<>> THEN <<>>
    ELSE IF EndsWith(Head(l), Mp4) THEN <<Head(l)>> \o FilterMp4(Tail(l))
    ELSE FilterMp4(Tail(l))

\* os.path.join(data_dir, name)
PathJoin(d, n) == d \o <<"/">> \o n

\* str.rfind(".") as a 1-based position, 0 when there is no dot
RFindDot(s) ==
    LET ds == {i \in 1..Len(s) : s[i] = "."}
    IN IF ds = {} THEN 0 ELSE CHOOSE i \in ds : \A j \in ds : j <= i

\* os.path.splitext(name)[0], with a doubled extension: a faulty variant of SplitExtRoot
SplitExtRootTwice(s) ==
    LET d == RFindDot(s)
        r == IF d = 0 THEN s ELSE SubSeq(s, 1, d - 1)
        e == RFindDot(r)
    IN IF e = 0 THEN r ELSE SubSeq(r, 1, e - 1)

\* os.path.splitext(name)[0]: the name up to its last dot, the whole name when
\* only dots precede that dot (or there is none)
SplitExtRoot(s) ==
    LET d == RFindDot(s)
    IN IF d > 0 /\ \E i \in 1..(d - 1) : s[i] # "."
       THEN SubSeq(s, 1, d - 1)
       ELSE s

\* ---------------------------------------------------------------- frames
NoClip == [shape |-> <<>>, data |-> <<>>]
NoItem == <<>>
NoTransform == "None"
Transforms == {NoTransform, "affine"}

\* The frame cap.read() decodes at stream position pos (0-based) of video v:
\* HxWxC, BGR.  Every decoded pixel is positive, so no decoded frame is all-zero.
RawFrame(v, pos) ==
    [shape |-> v.hw \o <<3>>, px |-> <<3 * pos + 1, 3 * pos + 2, 3 * pos + 3>>]

\* cv2.cvtColor(frame, cv2.COLOR_BGR2RGB)
CvtColor(f) == [f EXCEPT !.px = <<f.px[3], f.px[2], f.px[1]>>]

\* torch.tensor(frame).permute(2, 0, 1): HxWxC to CxHxW
Permute(f) == [f EXCEPT !.shape = <<f.shape[3], f.shape[1], f.shape[2]>>]

ToTensor(f) == Permute(CvtColor(f))

\* a copy of the frame: a faulty variant of ZerosLike
CloneLike(f) == f

\* torch.zeros_like
ZerosLike(f) == [shape |-> f.shape, px |-> <<0, 0, 0>>]

\* padding that stops one frame early: a faulty variant of PadFrames
RECURSIVE PadFramesShort(_, _)
PadFramesShort(fs, n) ==
    IF Len(fs) + 1 >= n THEN fs
    ELSE PadFramesShort(Append(fs, ZerosLike(fs[Len(fs)])), n)

\* for _ in range(n - len(frames)): frames.append(torch.zeros_like(frames[-1]))
RECURSIVE PadFrames(_, _)
PadFrames(fs, n) ==
    IF Len(fs) >= n THEN fs
    ELSE PadFrames(Append(fs, ZerosLike(fs[Len(fs)])), n)

\* torch.stack(frames): T x C x H x W
Stack(fs) ==
    [shape |-> <<Len(fs)>> \o fs[1].shape, data |-> [i \in 1..Len(fs) |-> fs[i].px]]

\* the configured transform, a callable on clips
ApplyTransform(t, c) ==
    IF t = NoTransform THEN c
    ELSE [c EXCEPT !.data =
            [i \in DOMAIN c.data |-> [k \in 1..3 |-> 2 * c.data[i][k] + 1]]]

\* -------------------------------------------------------------- streams
\* every stream of at most MaxSrcLen entries with at most one defective entry
Streams ==
    UNION {
        {[i \in 1..n |-> "ok"]}
          \cup {[i \in 1..n |-> IF i = k THEN e ELSE "ok"] :
                    k \in 1..n, e \in {"fail", "bad"}}
        : n \in 0..MaxSrcLen }

\* the ten-frame source of the documented scenario
TenFrames == [i \in 1..10 |-> "ok"]

\* the sampling configurations: the small ones and the defaults
Configs ==
    ((1..MaxNumFrames) \X (1..MaxFrameStep)) \cup {<<DefaultNumFrames, DefaultFrameStep>>}

\* What cap.read() finds at the handle's position.
EntryAt(v, pos) == IF pos < Len(v.entries) THEN v.entries[pos + 1] ELSE "eof"

StockVideo == [hw |-> <<2, 1>>, entries |-> <<"ok", "ok", "ok">>]

\* the paths load_video is called with: those of the enumerated files
Paths == {PathJoin(DataDir, ListDir[i]) : i \in {j \in 1..Len(ListDir) : EndsWith(ListDir[j], Mp4)}}

\* The first listed video ranges over every stream; the other files hold a
\* fixed three-frame video of another frame size.
Disks ==
    {[p \in Paths |->
        IF p = PathJoin(DataDir, ListDir[1])
        THEN [hw |-> <<1, 2>>, entries |-> s]
        ELSE StockVideo] :
     s \in Streams \cup {TenFrames}}

\* ------------------------------------------------------- scraper at rest
SIdle ==
    /\ s_pc = "off"
    /\ site = <<>>
    /\ fault = <<"none", 0>>
    /\ driver = "none"
    /\ page = 0
    /\ all_text_video = <<>>
    /\ logged = FALSE
    /\ s_result = <<>>

\* ------------------------------------------------- SignLanguageDataset
\* __init__
Init ==
    /\ \E c \in Configs : num_frames = c[1] /\ frame_step = c[2]
    /\ transform \in Transforms
    /\ data = FilterMp4(ListDir)
    /\ disk \in Disks
    /\ pc = "idle"
    /\ caller = "none"
    /\ idx = -1
    /\ path = <<>>
    /\ cap = "none"
    /\ cursor = 0
    /\ frames = <<>>
    /\ frame_count = 0
    /\ log = <<>>
    /\ clip = NoClip
    /\ item = NoItem
    /\ error = "none"
    /\ memo = [p \in Paths |-> NoClip]
    /\ SIdle

\* __len__
DatasetLen == Len(data)

Config == <<num_frames, frame_step, transform, data, disk>>

\* no call is running
AtRest == pc \in {"idle", "returned", "raised"}

\* the clip the finished call returned is what the next call is compared with
Remember == IF clip # NoClip THEN [memo EXCEPT ![path] = clip] ELSE memo

\* load_video entered with a counter left over from the previous call:
\* a faulty variant of Open
OpenStale(p, who, i) ==
    /\ AtRest
    /\ memo' = Remember
    /\ caller' = who
    /\ idx' = i
    /\ path' = p
    /\ cap' = "open"
    /\ cursor' = 0
    /\ frames' = <<>>
    /\ log' = <<>>
    /\ clip' = NoClip
    /\ item' = NoItem
    /\ error' = "none"
    /\ pc' = "loop"
    /\ UNCHANGED <<frame_count, Config, svars>>

\* cap = cv2.VideoCapture(video_path); frames = []; frame_count = 0
Open(p, who, i) ==
    /\ AtRest
    /\ memo' = Remember
    /\ caller' = who
    /\ idx' = i
    /\ path' = p
    /\ cap' = "open"
    /\ cursor' = 0
    /\ frames' = <<>>
    /\ frame_count' = 0
    /\ log' = <<>>
    /\ clip' = NoClip
    /\ item' = NoItem
    /\ error' = "none"
    /\ pc' = "loop"
    /\ UNCHANGED <<Config, svars>>

\* a direct call dataset.load_video(video_path)
CallLoadVideo == \E p \in Paths : Open(p, "load_video", -1)

\* dataset[idx]: video_path = os.path.join(self.data_dir, self.data[idx]),
\* then self.load_video(video_path)
CallGetItem ==
    \E i \in 0..(Len(data) - 1) : Open(PathJoin(DataDir, data[i + 1]), "getitem", i)

\* a loop test that lets one more frame in: a faulty variant of LoopCond
LoopCondInclusive(fs, n) == Len(fs) <= n

\* while len(frames) < self.num_frames
LoopCond(fs, n) == Len(fs) < n

\* a stride test shifted by one: a faulty variant of Retain
RetainShifted(fc, step) == (fc + 1) % step = 0

\* if frame_count % self.frame_step == 0
Retain(fc, step) == fc % step = 0

InLoop == pc = "loop" /\ LoopCond(frames, num_frames)

\* a failed read that goes round the loop again: a faulty variant of ReadFail
ReadFailRetry ==
    /\ InLoop
    /\ EntryAt(disk[path], cursor) \in {"fail", "eof"}
    /\ log' = Append(log, FALSE)
    /\ cursor' = IF EntryAt(disk[path], cursor) = "fail" THEN cursor + 1 ELSE cursor
    /\ UNCHANGED <<pc, Config, caller, idx, path, cap, frames, frame_count, clip,
                   item, error, memo, svars>>

\* ret, frame = cap.read(); if not ret: break
ReadFail ==
    /\ InLoop
    /\ EntryAt(disk[path], cursor) \in {"fail", "eof"}
    /\ log' = Append(log, FALSE)
    /\ cursor' = IF EntryAt(disk[path], cursor) = "fail" THEN cursor + 1 ELSE cursor
    /\ pc' = "release"
    /\ UNCHANGED <<Config, caller, idx, path, cap, frames, frame_count, clip,
                   item, error, memo, svars>>

\* a frame is read and the stride test drops it; frame_count += 1
ReadSkip ==
    /\ InLoop
    /\ EntryAt(disk[path], cursor) \in {"ok", "bad"}
    /\ ~Retain(frame_count, frame_step)
    /\ log' = Append(log, TRUE)
    /\ cursor' = cursor + 1
    /\ frame_count' = frame_count + 1
    /\ UNCHANGED <<pc, Config, caller, idx, path, cap, frames, clip, item, error,
                   memo, svars>>

\* a frame is read, converted and appended; frame_count += 1
ReadRetain ==
    /\ InLoop
    /\ EntryAt(disk[path], cursor) = "ok"
    /\ Retain(frame_count, frame_step)
    /\ log' = Append(log, TRUE)
    /\ cursor' = cursor + 1
    /\ frames' = Append(frames, ToTensor(RawFrame(disk[path], cursor)))
    /\ frame_count' = frame_count + 1
    /\ UNCHANGED <<pc, Config, caller, idx, path, cap, clip, item, error, memo, svars>>

\* a frame is read and cv2.cvtColor / torch.tensor raises on it: the exception
\* leaves load_video (and __getitem__) at once
ReadRaise ==
    /\ InLoop
    /\ EntryAt(disk[path], cursor) = "bad"
    /\ Retain(frame_count, frame_step)
    /\ log' = Append(log, TRUE)
    /\ cursor' = cursor + 1
    /\ error' = "ConvertError"
    /\ pc' = "raised"
    /\ UNCHANGED <<Config, caller, idx, path, cap, frames, frame_count, clip, item,
                   memo, svars>>

\* the while test fails: the buffer is full
LoopExit ==
    /\ pc = "loop"
    /\ ~LoopCond(frames, num_frames)
    /\ pc' = "release"
    /\ UNCHANGED <<Config, caller, idx, path, cap, cursor, frames, frame_count, log,
                   clip, item, error, memo, svars>>

\* cap.release()
Release ==
    /\ pc = "release"
    /\ cap' = "released"
    /\ pc' = "pad"
    /\ UNCHANGED <<Config, caller, idx, path, cursor, frames, frame_count, log, clip,
                   item, error, memo, svars>>

\* the padding loop indexes frames[-1] of an empty list: IndexError
PadRaise ==
    /\ pc = "pad"
    /\ Len(frames) < num_frames
    /\ frames = <<>>
    /\ error' = "IndexError"
    /\ pc' = "raised"
    /\ UNCHANGED <<Config, caller, idx, path, cap, cursor, frames, frame_count, log,
                   clip, item, memo, svars>>

\* the padding loop, then return torch.stack(frames)
PadStack ==
    /\ pc = "pad"
    /\ frames # <<>>
    /\ frames' = PadFrames(frames, num_frames)
    /\ clip' = Stack(frames')
    /\ pc' = IF caller = "getitem" THEN "tail" ELSE "returned"
    /\ UNCHANGED <<Config, caller, idx, path, cap, cursor, frame_count, log, item,
                   error, memo, svars>>

\* label = os.path.splitext(self.data[idx])[0]; the transform; return video, label
GetItemTail ==
    /\ pc = "tail"
    /\ item' = <<ApplyTransform(transform, clip), SplitExtRoot(data[idx + 1])>>
    /\ pc' = "returned"
    /\ UNCHANGED <<Config, caller, idx, path, cap, cursor, frames, frame_count, log,
                   clip, error, memo, svars>>

Next ==
    \/ CallLoadVideo
    \/ CallGetItem
    \/ ReadFail
    \/ ReadSkip
    \/ ReadRetain
    \/ ReadRaise
    \/ LoopExit
    \/ Release
    \/ PadRaise
    \/ PadStack
    \/ GetItemTail

Spec == Init /\ [][Next]_vars

\* ------------------------------------------------- scrape_with_selenium
\* An image link is <<directory, name, extension>>.
Logo == <<"static", "logo", ".png">>
Thumb(n) == <<"thumbs", n, ".png">>

\* What a page shows: its texts (the <p> elements of the class) and its images
\* (the <img> elements of the class, the first one being the site's logo).
PageKinds ==
    { [texts |-> <<"t1", "t2">>, imgs |-> <<Logo, Thumb("D1"), Thumb("D2")>>],
      [texts |-> <<"t3">>,       imgs |-> <<Logo, Thumb("D3"), Thumb("D4")>>],
      [texts |-> <<>>,           imgs |-> <<>>] }

\* A page also shows the pagination bar, with or without a 'btn-info' button.
Pages == {[texts |-> k.texts, imgs |-> k.imgs, info |-> b] : k \in PageKinds, b \in BOOLEAN}

Sites == UNION {[1..n -> Pages] : n \in 1..MaxPages}

\* Where an exception is raised: nowhere, in driver.get(url), while page k is
\* parsed, or while the next button of page k is clicked and waited for.
Faults(st) ==
    {<<"none", 0>>, <<"get", 0>>}
        \cup {<<kind, k>> : kind \in {"parse", "click"}, k \in 1..Len(st)}

\* images = [img['src'] for img in soup.find_all('img', ...)][1:]
ExtractData(pg) ==
    <<pg.texts, IF pg.imgs = <<>> THEN <<>> ELSE Tail(pg.imgs)>>

\* img.replace("thumbs", "videos").replace(".png", ".mp4?autoplay=true")
VideoLink(img) ==
    << IF img[1] = "thumbs" THEN "videos" ELSE img[1],
       img[2],
       IF img[3] = ".png" THEN ".mp4?autoplay=true" ELSE img[3] >>

GetVideoLinks(images) == [i \in 1..Len(images) |-> VideoLink(images[i])]

\* list(zip(a, b))
Zip(a, b) ==
    LET n == IF Len(a) < Len(b) THEN Len(a) ELSE Len(b)
    IN [i \in 1..n |-> <<a[i], b[i]>>]

\* text_video of one page
TextVideo(pg) ==
    LET ex == ExtractData(pg)
    IN Zip(ex[1], GetVideoLinks(ex[2]))

\* the dataset, at rest, while the scraper runs
DIdle ==
    /\ num_frames = DefaultNumFrames
    /\ frame_step = DefaultFrameStep
    /\ transform = NoTransform
    /\ data = FilterMp4(ListDir)
    /\ disk = [p \in Paths |-> StockVideo]
    /\ pc = "idle"
    /\ caller = "none"
    /\ idx = -1
    /\ path = <<>>
    /\ cap = "none"
    /\ cursor = 0
    /\ frames = <<>>
    /\ frame_count = 0
    /\ log = <<>>
    /\ clip = NoClip
    /\ item = NoItem
    /\ error = "none"
    /\ memo = [p \in Paths |-> NoClip]

\* a call scrape_with_selenium(url, chrome_driver_path) is about to start
ScrapeInit ==
    /\ DIdle
    /\ site \in Sites
    /\ fault \in Faults(site)
    /\ s_pc = "start"
    /\ driver = "none"
    /\ page = 0
    /\ all_text_video = <<>>
    /\ logged = FALSE
    /\ s_result = <<>>

\* driver = setup_webdriver(...); driver.get(url); wait = ...; all_text_video = []
GetOk ==
    /\ s_pc = "start"
    /\ fault[1] # "get"
    /\ driver' = "open"
    /\ page' = 1
    /\ all_text_video' = <<>>
    /\ s_pc' = "loop"
    /\ UNCHANGED <<dvars, site, fault, logged, s_result>>

\* driver.get(url) raises: the call is outside the try statement, so the
\* exception leaves scrape_with_selenium
GetRaise ==
    /\ s_pc = "start"
    /\ fault[1] = "get"
    /\ driver' = "open"
    /\ s_pc' = "propagated"
    /\ UNCHANGED <<dvars, site, fault, page, all_text_video, logged, s_result>>

\* except Exception as e: print(...); finally: driver.quit(); return all_text_video
Caught(pairs) ==
    /\ all_text_video' = pairs
    /\ logged' = TRUE
    /\ driver' = "quit"
    /\ s_result' = pairs
    /\ s_pc' = "returned"
    /\ UNCHANGED <<dvars, site, fault, page>>

\* break; finally: driver.quit(); return all_text_video
Broke(pairs) ==
    /\ all_text_video' = pairs
    /\ driver' = "quit"
    /\ s_result' = pairs
    /\ s_pc' = "returned"
    /\ UNCHANGED <<dvars, site, fault, page, logged>>

\* an iteration in which BeautifulSoup / extract_data raises
IterParseRaise ==
    /\ s_pc = "loop"
    /\ fault = <<"parse", page>>
    /\ Caught(all_text_video)

\* an iteration that finds no 'btn-info' button
IterNoInfo ==
    /\ s_pc = "loop"
    /\ fault # <<"parse", page>>
    /\ ~site[page].info
    /\ Broke(all_text_video \o TextVideo(site[page]))

\* an iteration on the last page: btn_index + 1 = len(buttons)
IterLastPage ==
    /\ s_pc = "loop"
    /\ fault # <<"parse", page>>
    /\ site[page].info
    /\ page = Len(site)
    /\ Broke(all_text_video \o TextVideo(site[page]))

\* an iteration whose next_button.click() / wait.until(...) raises
IterClickRaise ==
    /\ s_pc = "loop"
    /\ fault = <<"click", page>>
    /\ site[page].info
    /\ page < Len(site)
    /\ Caught(all_text_video \o TextVideo(site[page]))

\* an iteration that clicks through to the next page
IterNext ==
    /\ s_pc = "loop"
    /\ fault \notin {<<"parse", page>>, <<"click", page>>}
    /\ site[page].info
    /\ page < Len(site)
    /\ all_text_video' = all_text_video \o TextVideo(site[page])
    /\ page' = page + 1
    /\ UNCHANGED <<dvars, s_pc, site, fault, driver, logged, s_result>>

ScrapeNext ==
    \/ GetOk
    \/ GetRaise
    \/ IterParseRaise
    \/ IterNoInfo
    \/ IterLastPage
    \/ IterClickRaise
    \/ IterNext

ScrapeSpec == ScrapeInit /\ [][ScrapeNext]_vars

\* ---------------------------------------------------------------- claims
V == disk[path].entries
Called == caller # "none"
Returned == clip # NoClip
AllOk(s, n) == Len(s) >= n /\ \A i \in 1..n : s[i] = "ok"
NoBad(s) == \A i \in 1..Len(s) : s[i] # "bad"
CeilDiv(a, b) == (a + b - 1) \div b

\* the pixel of a real output frame taken at decode position pos: RGB
RealPx(pos) == <<3 * pos + 3, 3 * pos + 2, 3 * pos + 1>>
ZeroPx == <<0, 0, 0>>
ClipShape == <<num_frames, 3>> \o disk[path].hw

\* C1: whenever the source yields at least one decodable frame (its first read
\* succeeds and no frame fails to convert), load_video does not raise and the clip
\* it returns has exactly num_frames frames.
C1_ExactLength ==
    (Called /\ AllOk(V, 1) /\ NoBad(V)) =>
        /\ pc # "raised"
        /\ Returned => (clip.shape[1] = num_frames /\ Len(clip.data) = num_frames)

C1_Witness ==
    /\ Returned /\ AllOk(V, 1) /\ NoBad(V)
    /\ Len(V) < num_frames
    /\ Len(clip.data) = num_frames

\* C2 (as claimed): for every source length, the empty source included, load_video
\* never raises and returns a clip of num_frames frames.
C2_NeverRaisesOnShortSource ==
    (Called /\ NoBad(V)) =>
        /\ pc # "raised"
        /\ Returned => Len(clip.data) = num_frames

\* C3: with at least num_frames * frame_step decodable frames, the clip holds
\* num_frames real frames and the i-th one is the source frame at decode position
\* i * frame_step.
C3_Stride ==
    (Called /\ AllOk(V, num_frames * frame_step)) =>
        /\ pc # "raised"
        /\ Returned =>
              /\ clip.shape = ClipShape
              /\ clip.data = [i \in 1..num_frames |-> RealPx((i - 1) * frame_step)]

C3_Witness ==
    /\ Returned /\ AllOk(V, num_frames * frame_step)
    /\ num_frames >= 2 /\ frame_step >= 2
    /\ clip.data[2] = RealPx(frame_step)

\* C4: a source of exactly k frames, 0 < k < num_frames, gives a clip of num_frames
\* frames: the first ceil(k / frame_step) are the real frames at positions 0,
\* frame_step, 2 * frame_step, ..., every later one is all-zero, and the clip has
\* the shape of the retained frames.
C4_RealThenZero ==
    (Returned /\ Len(V) > 0 /\ Len(V) < num_frames /\ AllOk(V, Len(V))) =>
        /\ clip.shape = ClipShape
        /\ clip.data =
              [i \in 1..num_frames |->
                 IF i <= CeilDiv(Len(V), frame_step)
                 THEN RealPx((i - 1) * frame_step) ELSE ZeroPx]

\* the documented scenario: num_frames = 13, frame_step = 4, ten frames
C4_Witness ==
    /\ Returned /\ num_frames = 13 /\ frame_step = 4 /\ V = TenFrames
    /\ clip.data = <<RealPx(0), RealPx(4), RealPx(8)>> \o [i \in 1..10 |-> ZeroPx]

\* C5 (as claimed): no execution of load_video ends with the handle still open.
C5_HandleReleasedOnEveryExit ==
    (Called /\ AtRest) => cap = "released"

C7_Deterministic ==
    (Returned /\ memo[path] # NoClip) => clip = memo[path]

C7_Witness ==
    /\ Returned /\ memo[path] = clip
    /\ \E q \in Paths : q # path /\ memo[q] # NoClip /\ memo[q] # clip

\* C9: a call reads at most (num_frames - 1) * frame_step + 1 times; a source with
\* that many decodable frames is read exactly that often, every read succeeds and
\* the clip holds no zero frame.
C9_ReadBound ==
    /\ Called => Len(log) <= (num_frames - 1) * frame_step + 1
    /\ (Returned /\ AllOk(V, (num_frames - 1) * frame_step + 1)) =>
          /\ Len(log) = (num_frames - 1) * frame_step + 1
          /\ \A i \in 1..Len(log) : log[i]
          /\ Len(clip.data) = num_frames
          /\ \A i \in 1..Len(clip.data) : clip.data[i] # ZeroPx

\* a source of exactly (num_frames - 1) * frame_step + 1 frames, fewer than
\* num_frames * frame_step
C9_Witness ==
    /\ Returned /\ AllOk(V, Len(V))
    /\ Len(V) = (num_frames - 1) * frame_step + 1
    /\ Len(V) < num_frames * frame_step
    /\ Len(log) = Len(V)

\* the label of an enumerated name: the name without its ".mp4", and the whole
\* name when nothing but dots precedes ".mp4" (such a name has no extension)
IsLabelOf(l, n) ==
    LET stem == SubSeq(n, 1, Len(n) - Len(Mp4))
    IN l = IF \E i \in 1..Len(stem) : stem[i] # "." THEN stem ELSE n

C10_Item ==
    item # NoItem =>
        /\ caller = "getitem" /\ idx \in 0..(DatasetLen - 1)
        /\ path = PathJoin(DataDir, data[idx + 1])
        /\ Returned
        /\ item[1].shape = clip.shape
        /\ item[1].data =
              [i \in 1..num_frames |-> [k \in 1..3 |->
                 IF transform = NoTransform THEN clip.data[i][k]
                 ELSE 2 * clip.data[i][k] + 1]]
        /\ IsLabelOf(item[2], data[idx + 1])

\* C10: __getitem__(idx) returns the clip sampled from the idx-th enumerated file,
\* transformed once when a transform is configured, with the file's name without
\* its extension as label; no step changes the file list, num_frames, frame_step
\* or the transform, so __len__ stays the same.
C10_GetItem ==
    /\ []C10_Item
    /\ [][/\ data' = data /\ num_frames' = num_frames /\ frame_step' = frame_step
           /\ transform' = transform /\ DatasetLen' = DatasetLen]_vars

C10_Witness ==
    /\ item # NoItem /\ transform # NoTransform
    /\ idx = 1
    /\ item[2] = <<"b", ".", "c">>
    /\ memo[PathJoin(DataDir, data[1])] # NoClip

\* the pairs of the first n pages of the site
RECURSIVE PairsOf(_, _)
PairsOf(st, n) == IF n = 0 THEN <<>> ELSE PairsOf(st, n - 1) \o TextVideo(st[n])

\* C8 (as claimed): whatever fails, the initial page load included, the failure
\* is logged, the exception does not leave scrape_with_selenium, and the call
\* returns the pairs of the pages processed before the failure.
C8_FailuresAreCaught ==
    /\ s_pc # "propagated"
    /\ (s_pc = "returned" /\ fault[1] = "parse") =>
          (logged /\ s_result = PairsOf(site, fault[2] - 1))
    /\ (s_pc = "returned" /\ fault[1] = "click" /\ logged) =>
          s_result = PairsOf(site, fault[2])

====
